---- MODULE Spec2Model ----
(***************************************************************************)
(* Alternating least squares (als) of recommender_systems.ipynb.           *)
(*                                                                         *)
(* Real numbers are modelled as exact rationals <<n, d>> in lowest terms   *)
(* with d > 0; a matrix is a sequence of rows, a vector a sequence of      *)
(* rationals.  np.linalg.pinv is the Moore-Penrose pseudo-inverse, here    *)
(* computed exactly by Greville's column recursion.                        *)
(***************************************************************************)
EXTENDS Integers, Sequences, FiniteSets, TLC

(***************************************************************************)
(* Bounds of the model.                                                    *)
(***************************************************************************)
MaxReps == 2

(***************************************************************************)
(* Rational arithmetic (the real-valued numeric layer).                    *)
(***************************************************************************)
Abs(x) == IF x < 0 THEN -x ELSE x

RECURSIVE Gcd(_, _)
Gcd(a, b) == IF b = 0 THEN a ELSE Gcd(b, a % b)

Norm(n, d) ==
    LET s == IF d < 0 THEN -1 ELSE 1
        g == Gcd(Abs(n), Abs(d))
    IN  IF n = 0 THEN <<0, 1>> ELSE <<(s * n) \div g, (s * d) \div g>>

Rat(n) == <<n, 1>>
RZero == <<0, 1>>
ROne == <<1, 1>>
\* sums over the least common denominator, products cross-reduced first
RAdd(x, y) ==
    LET g == Gcd(x[2], y[2])
    IN  Norm(x[1] * (y[2] \div g) + y[1] * (x[2] \div g), (x[2] \div g) * y[2])
RNeg(x) == <<-x[1], x[2]>>
RSub(x, y) == RAdd(x, RNeg(y))
RMul(x, y) ==
    LET g1 == Gcd(Abs(x[1]), y[2])
        g2 == Gcd(Abs(y[1]), x[2])
    IN  Norm((x[1] \div g1) * (y[1] \div g2), (x[2] \div g2) * (y[2] \div g1))
RInv(x) == IF x[1] < 0 THEN <<-x[2], -x[1]>> ELSE <<x[2], x[1]>>
RDiv(x, y) == RMul(x, RInv(y))
RSq(x) == RMul(x, x)

(***************************************************************************)
(* Dense arrays: shape, transpose, dot.                                    *)
(***************************************************************************)
Rows(A) == Len(A)
Cols(A) == IF Len(A) = 0 THEN 0 ELSE Len(A[1])
Shape(A) == <<Rows(A), Cols(A)>>

\* A.T
Transpose(A) == [j \in 1..Cols(A) |-> [i \in 1..Rows(A) |-> A[i][j]]]

\* integer array -> real array (numpy promotes on the first float operation)
AsReal(A) == [i \in 1..Rows(A) |-> [j \in 1..Cols(A) |-> Rat(A[i][j])]]
VecAsReal(v) == [j \in 1..Len(v) |-> Rat(v[j])]

RECURSIVE VDotUpTo(_, _, _)
VDotUpTo(u, v, n) ==
    IF n = 0 THEN RZero ELSE RAdd(VDotUpTo(u, v, n - 1), RMul(u[n], v[n]))

\* inner product of two vectors of equal length
VDot(u, v) == VDotUpTo(u, v, Len(u))

\* A.dot(v), A two-dimensional and v one-dimensional: defined when the
\* columns of A match the length of v, a ValueError otherwise
MatVecOk(A, v) == Cols(A) = Len(v)
MatVec(A, v) == [i \in 1..Rows(A) |-> VDot(A[i], v)]

\* A.dot(B.T) for A (a x k) and B (b x k)
MatMulT(A, B) == [i \in 1..Rows(A) |-> [j \in 1..Rows(B) |-> VDot(A[i], B[j])]]

(***************************************************************************)
(* np.linalg.pinv: Greville's recursion over the columns of A.             *)
(***************************************************************************)
Col(A, j) == [i \in 1..Rows(A) |-> A[i][j]]
VScale(c, v) == [i \in 1..Len(v) |-> RMul(c, v[i])]
VSub(u, v) == [i \in 1..Len(u) |-> RSub(u[i], v[i])]
IsZeroVec(v) == \A i \in 1..Len(v) : v[i] = RZero

\* pseudo-inverse of one column: a^T / (a^T a), or 0 for the zero column
PinvVec(a) ==
    IF IsZeroVec(a) THEN [i \in 1..Len(a) |-> RZero]
    ELSE VScale(RDiv(ROne, VDot(a, a)), a)

RECURSIVE PinvCols(_, _)
PinvCols(A, j) ==
    IF j = 1 THEN <<PinvVec(Col(A, 1))>>
    ELSE
      LET Pm == PinvCols(A, j - 1)
          a  == Col(A, j)
          d  == MatVec(Pm, a)
          Ad == [i \in 1..Rows(A) |-> VDotUpTo(A[i], d, j - 1)]
          c  == VSub(a, Ad)
          dP == [x \in 1..Rows(A) |-> VDot(d, Col(Pm, x))]
          b  == IF IsZeroVec(c)
                THEN VScale(RDiv(ROne, RAdd(ROne, VDot(d, d))), dP)
                ELSE PinvVec(c)
      IN  [l \in 1..j |-> IF l < j THEN VSub(Pm[l], VScale(d[l], b)) ELSE b]

\* np.linalg.pinv(A) for A (n x k): a (k x n) array
Pinv(A) == PinvCols(A, Cols(A))

(***************************************************************************)
(* Inputs of a call.                                                       *)
(***************************************************************************)
\* the first example's ratings: brian and erin, five films
ratings_arr == <<<<0, 1, 0, 0, 4>>, <<0, 0, 0, 5, 0>>>>

\* shapes (users, items) of the generated ratings matrices
Shapes == {<<1, 1>>, <<1, 2>>, <<2, 1>>, <<2, 2>>}

\* ratings: 0 is "unobserved".  Runs of up to two iterations draw ratings
\* from 0..2; longer runs draw 0/1 ratings, whose exact factors still fit
\* TLC's 32-bit integers
RatingScale(n) == IF n <= 2 THEN 0..2 ELSE 0..1
RatingsOfShape(m, r, n) == [1..m -> [1..r -> RatingScale(n)]]
RatingsInputs(n) ==
    {ratings_arr} \cup UNION {RatingsOfShape(sh[1], sh[2], n) : sh \in Shapes}

\* a factor matrix (rows x k) drawn for a seed; stands for the gs(0, 1) draws
Seeds == {0, 1, 2}
Factors(rows, k, sd) ==
    [j \in 1..rows |-> [c \in 1..k |-> Rat(((sd * j + c * c + sd) % 4) - 1)]]

\* items: r x k for k in 1..2, and one with a row missing
ItemsInputs(R) ==
    {Factors(Cols(R), k, sd) : k \in {1, 2}, sd \in Seeds}
      \cup (IF Cols(R) >= 2 THEN {Factors(Cols(R) - 1, 1, 1)} ELSE {})

\* users: m x k, and one with a row too many
UsersInputs(R, Q) ==
    {Factors(Rows(R), Cols(Q), 1), Factors(Rows(R) + 1, Cols(Q), 2)}

(***************************************************************************)
(* The statements of als.                                                  *)
(***************************************************************************)
\* for _ in range(reps): rep iterations have been started
LoopContinuesOnce(rep, reps) == rep < reps \/ rep = 0
LoopContinuesInclusive(rep, reps) == rep <= reps
LoopContinues(rep, reps) == rep < reps

\* for i in range(len(ratings)): i rows are done
SweepDoneEarly(i, R) == i >= 1
SweepDone(i, R) == i = Len(R)

\* A.dot(v) raises ValueError unless the shapes are aligned
AlignedLoose(A, v) == Cols(A) <= Len(v)
Aligned(A, v) == MatVecOk(A, v)

\* user = np.linalg.pinv(items).dot(ratings[i])
UserRow(items, R, i) == MatVec(Pinv(items), VecAsReal(R[i]))

\* item = np.linalg.pinv(new_users).dot(ratings_cols[i])
ItemRow(new_users, ratings_cols, i) ==
    MatVec(Pinv(new_users), VecAsReal(ratings_cols[i]))

\* guess = new_users.dot(new_items.T)
Guess(new_users, new_items) == MatMulT(new_users, new_items)

\* if ratings[i, j] != 0: err += (ratings[i, j] - guess[i, j])**2
ErrTermUnmasked(R, guess, i, j, acc) ==
    IF j <= Cols(guess)
    THEN RAdd(acc, RSq(RSub(Rat(R[i][j]), guess[i][j])))
    ELSE acc
ErrTerm(R, guess, i, j, acc) ==
    IF R[i][j] # 0
    THEN RAdd(acc, RSq(RSub(Rat(R[i][j]), guess[i][j])))
    ELSE acc

\* guess[i, j] is read only for a rated entry; IndexError outside guess
ErrReadOk(R, guess, i, j) == R[i][j] = 0 \/ j <= Cols(guess)

\* the two nested loops over range(len(ratings)), range(len(ratings[i])),
\* from entry (i, j) on; [ok |-> FALSE] is the IndexError
RECURSIVE ErrLoop(_, _, _, _, _)
ErrLoop(R, guess, i, j, acc) ==
    IF i > Rows(R) THEN [ok |-> TRUE, val |-> acc]
    ELSE IF j > Len(R[i]) THEN ErrLoop(R, guess, i + 1, 1, acc)
    ELSE IF ~ErrReadOk(R, guess, i, j) THEN [ok |-> FALSE, val |-> acc]
    ELSE ErrLoop(R, guess, i, j + 1, ErrTerm(R, guess, i, j, acc))

\* items = new_items: the local name is rebound, the caller's array is not
\* written
RebindInPlace(items_arr, new_items) ==
    [items |-> new_items, items_arr |-> new_items]
RebindDropped(items_arr, new_items) ==
    [items |-> items_arr, items_arr |-> items_arr]
Rebind(items_arr, new_items) ==
    [items |-> new_items, items_arr |-> items_arr]

(***************************************************************************)
(* State of one call of als.                                               *)
(***************************************************************************)
VARIABLES
    ratings,      \* the ratings array (the caller's object)
    users,        \* the users array (the caller's object)
    items_arr,    \* the caller's items array
    reps,         \* the iteration count
    items,        \* the array the local name items is bound to
    ratings_cols, \* ratings.T
    rep,          \* iterations started
    i,            \* rows done in the running sweep
    new_users,    \* list, then array, of user rows
    new_items,    \* list, then array, of item rows
    guess,        \* the reconstruction of this iteration
    err,          \* the error of this iteration
    bound,        \* local names that have been assigned
    pc,           \* the statement to run next
    printed,      \* the values printed so far
    result,       \* the returned array
    exc,          \* the exception raised, its statement and iteration
    atCall,       \* history: the arguments at call time
    solves,       \* history: every solve, with its design matrix
    sweeps        \* history: the factor matrix of every finished sweep

vars == <<ratings, users, items_arr, reps, items, ratings_cols, rep, i,
          new_users, new_items, guess, err, bound, pc, printed, result, exc,
          atCall, solves, sweeps>>

args == <<ratings, users, reps, atCall>>

NoExc == [type |-> "none", at |-> "none", rep |-> 0, i |-> 0]

Init ==
    /\ reps \in 0..MaxReps
    /\ ratings \in RatingsInputs(reps)
    /\ items_arr \in ItemsInputs(ratings)
    /\ users \in UsersInputs(ratings, items_arr)
    /\ items = items_arr
    /\ atCall = [ratings |-> ratings, users |-> users, items |-> items_arr]
    /\ ratings_cols = <<>>
    /\ rep = 0
    /\ i = 0
    /\ new_users = <<>>
    /\ new_items = <<>>
    /\ guess = <<>>
    /\ err = RZero
    /\ bound = {"ratings", "users", "items", "reps"}
    /\ pc = "call"
    /\ printed = <<>>
    /\ result = <<>>
    /\ exc = NoExc
    /\ solves = <<>>
    /\ sweeps = <<>>

Raise(type) ==
    /\ exc' = [type |-> type, at |-> pc, rep |-> rep, i |-> i]
    /\ pc' = "raised"

\* ratings_cols = ratings.T
Call ==
    /\ pc = "call"
    /\ ratings_cols' = Transpose(ratings)
    /\ bound' = bound \cup {"ratings_cols"}
    /\ pc' = "for"
    /\ UNCHANGED <<args, items_arr, items, rep, i, new_users, new_items,
                   guess, err, printed, result, exc, solves, sweeps>>

\* for _ in range(reps): new_users = []
ForReps ==
    /\ pc = "for"
    /\ IF LoopContinues(rep, reps)
       THEN /\ rep' = rep + 1
            /\ new_users' = <<>>
            /\ bound' = bound \cup {"new_users"}
            /\ i' = 0
            /\ pc' = "user"
       ELSE /\ pc' = "return"
            /\ UNCHANGED <<rep, new_users, bound, i>>
    /\ UNCHANGED <<args, items_arr, items, ratings_cols, new_items, guess,
                   err, printed, result, exc, solves, sweeps>>

\* one pass of the user loop: solve, append
UserSolve ==
    /\ pc = "user"
    /\ ~SweepDone(i, ratings)
    /\ IF Aligned(Pinv(items), ratings[i + 1])
       THEN /\ new_users' = Append(new_users, UserRow(items, ratings, i + 1))
            /\ solves' = Append(solves, [rep |-> rep, side |-> "user",
                                         row |-> i, design |-> items])
            /\ i' = i + 1
            /\ UNCHANGED <<pc, exc>>
       ELSE /\ Raise("ValueError")
            /\ UNCHANGED <<new_users, solves, i>>
    /\ UNCHANGED <<args, items_arr, items, ratings_cols, rep, new_items,
                   guess, err, bound, printed, result, sweeps>>

\* new_users = np.asarray(new_users); new_items = []
UsersArr ==
    /\ pc = "user"
    /\ SweepDone(i, ratings)
    /\ sweeps' = Append(sweeps, [rep |-> rep, side |-> "user",
                                 factor |-> new_users])
    /\ new_items' = <<>>
    /\ bound' = bound \cup {"new_items"}
    /\ i' = 0
    /\ pc' = "item"
    /\ UNCHANGED <<args, items_arr, items, ratings_cols, rep, new_users,
                   guess, err, printed, result, exc, solves>>

\* one pass of the item loop: ratings_cols[i] raises IndexError past the last
\* column; pinv(new_users) is k x m and a column has m entries, so the dot is
\* always aligned
ItemSolve ==
    /\ pc = "item"
    /\ ~SweepDone(i, ratings)
    /\ IF i + 1 > Len(ratings_cols)
       THEN /\ Raise("IndexError")
            /\ UNCHANGED <<new_items, solves, i>>
       ELSE /\ new_items' = Append(new_items,
                                   ItemRow(new_users, ratings_cols, i + 1))
            /\ solves' = Append(solves, [rep |-> rep, side |-> "item",
                                         row |-> i, design |-> new_users])
            /\ i' = i + 1
            /\ UNCHANGED <<pc, exc>>
    /\ UNCHANGED <<args, items_arr, items, ratings_cols, rep, new_users,
                   guess, err, bound, printed, result, sweeps>>

\* new_items = np.asarray(new_items); guess = ...; err = 0
ItemsArr ==
    /\ pc = "item"
    /\ SweepDone(i, ratings)
    /\ sweeps' = Append(sweeps, [rep |-> rep, side |-> "item",
                                 factor |-> new_items])
    /\ guess' = Guess(new_users, new_items)
    /\ err' = RZero
    /\ bound' = bound \cup {"guess", "err"}
    /\ pc' = "err"
    /\ UNCHANGED <<args, items_arr, items, ratings_cols, rep, i, new_users,
                   new_items, printed, result, exc, solves>>

\* the error loops
ErrSum ==
    /\ pc = "err"
    /\ LET e == ErrLoop(ratings, guess, 1, 1, err)
       IN  IF e.ok
           THEN /\ err' = e.val
                /\ pc' = "print"
                /\ UNCHANGED exc
           ELSE /\ err' = e.val
                /\ Raise("IndexError")
    /\ UNCHANGED <<args, items_arr, items, ratings_cols, rep, i, new_users,
                   new_items, guess, bound, printed, result, solves, sweeps>>

\* print(err)
PrintErr ==
    /\ pc = "print"
    /\ printed' = Append(printed, err)
    /\ pc' = "handoff"
    /\ UNCHANGED <<args, items_arr, items, ratings_cols, rep, i, new_users,
                   new_items, guess, err, bound, result, exc, solves, sweeps>>

\* items = new_items
Handoff ==
    /\ pc = "handoff"
    /\ LET b == Rebind(items_arr, new_items)
       IN  /\ items' = b.items
           /\ items_arr' = b.items_arr
    /\ pc' = "for"
    /\ UNCHANGED <<args, ratings_cols, rep, i, new_users, new_items, guess,
                   err, bound, printed, result, exc, solves, sweeps>>

\* return new_users.dot(new_items.T): UnboundLocalError when the loop body
\* never ran
Return ==
    /\ pc = "return"
    /\ IF {"new_users", "new_items"} \subseteq bound
       THEN /\ result' = Guess(new_users, new_items)
            /\ pc' = "done"
            /\ UNCHANGED exc
       ELSE /\ Raise("UnboundLocalError")
            /\ UNCHANGED result
    /\ UNCHANGED <<args, items_arr, items, ratings_cols, rep, i, new_users,
                   new_items, guess, err, bound, printed, solves, sweeps>>

Next ==
    \/ Call
    \/ ForReps
    \/ UserSolve
    \/ UsersArr
    \/ ItemSolve
    \/ ItemsArr
    \/ ErrSum
    \/ PrintErr
    \/ Handoff
    \/ Return

Spec == Init /\ [][Next]_vars

(***************************************************************************)
(* als as a function of its arguments: the same statements, run to the     *)
(* end.  The outcome is what the caller observes.                          *)
(***************************************************************************)
Raised(type, printed_) ==
    [status |-> "raised", exc |-> type, printed |-> printed_, result |-> <<>>]

RECURSIVE UserSweep(_, _, _, _)
UserSweep(R, items_, n, acc) ==
    IF SweepDone(n, R) THEN [ok |-> TRUE, val |-> acc]
    ELSE IF ~Aligned(Pinv(items_), R[n + 1]) THEN [ok |-> FALSE, val |-> acc]
    ELSE UserSweep(R, items_, n + 1, Append(acc, UserRow(items_, R, n + 1)))

RECURSIVE ItemSweep(_, _, _, _, _)
ItemSweep(R, cols, new_users_, n, acc) ==
    IF SweepDone(n, R) THEN [ok |-> TRUE, val |-> acc]
    ELSE IF n + 1 > Len(cols) THEN [ok |-> FALSE, val |-> acc]
    ELSE ItemSweep(R, cols, new_users_, n + 1,
                   Append(acc, ItemRow(new_users_, cols, n + 1)))

RECURSIVE AlsLoop(_, _, _, _, _, _, _)
AlsLoop(R, cols, items_, n, reps_, printed_, last) ==
    IF ~LoopContinues(n, reps_)
    THEN IF last.bound
         THEN [status |-> "done", exc |-> "none", printed |-> printed_,
               result |-> Guess(last.new_users, last.new_items)]
         ELSE Raised("UnboundLocalError", printed_)
    ELSE
      LET us == UserSweep(R, items_, 0, <<>>)
          it == ItemSweep(R, cols, us.val, 0, <<>>)
          e  == ErrLoop(R, Guess(us.val, it.val), 1, 1, RZero)
      IN  IF ~us.ok THEN Raised("ValueError", printed_)
          ELSE IF ~it.ok THEN Raised("IndexError", printed_)
          ELSE IF ~e.ok THEN Raised("IndexError", printed_)
          ELSE AlsLoop(R, cols, Rebind(items_, it.val).items, n + 1, reps_,
                       Append(printed_, e.val),
                       [bound |-> TRUE, new_users |-> us.val,
                        new_items |-> it.val])

NothingBound == [bound |-> FALSE, new_users |-> <<>>, new_items |-> <<>>]

alsFromUsers(ratings_, users_, items_, reps_) ==
    AlsLoop(ratings_, Transpose(ratings_), users_, 0, reps_, <<>>,
            NothingBound)
als(ratings_, users_, items_, reps_) ==
    AlsLoop(ratings_, Transpose(ratings_), items_, 0, reps_, <<>>,
            NothingBound)

\* what the caller has observed of the running call
Observed ==
    [status |-> pc, exc |-> exc.type, printed |-> printed, result |-> result]

(***************************************************************************)
(* Vocabulary of the properties.                                           *)
(***************************************************************************)
Square == Rows(ratings) = Cols(ratings)
ItemsFit == Rows(atCall.items) = Cols(ratings)
UsersFit == Shape(atCall.users) = <<Rows(ratings), Cols(atCall.items)>>
InIteration == pc \in {"user", "item", "err", "print", "handoff"}

\* the rows solved on one side in iteration t, among the first n solves
RowsSolved(t, side, n) ==
    {solves[x].row : x \in {y \in 1..n : solves[y].rep = t
                                          /\ solves[y].side = side}}

\* the factor matrices finished by a sweep of iteration t
Finished(t, side) ==
    {sweeps[x].factor : x \in {y \in 1..Len(sweeps) : sweeps[y].rep = t
                                                    /\ sweeps[y].side = side}}

\* the rated positions of R
Rated(R) == {p \in (1..Rows(R)) \X (1..Cols(R)) : R[p[1]][p[2]] # 0}

RECURSIVE SumSq(_, _, _)
SumSq(R, G, S) ==
    IF S = {} THEN RZero
    ELSE LET p == CHOOSE q \in S : TRUE
         IN  RAdd(RSq(RSub(Rat(R[p[1]][p[2]]), G[p[1]][p[2]])),
                  SumSq(R, G, S \ {p}))

\* G with every entry at an unrated position of R moved by one
Disturbed(R, G) ==
    [a \in 1..Rows(G) |-> [b \in 1..Cols(G) |->
        IF b <= Cols(R) /\ R[a][b] = 0 THEN RAdd(G[a][b], ROne) ELSE G[a][b]]]

\* the value the iteration reports, once it is computed
Reported == IF pc = "print" THEN err ELSE printed[Len(printed)]

\* some other users arrays a caller could pass
OtherUsers ==
    UsersInputs(ratings, atCall.items)
      \cup {Factors(Rows(ratings), Cols(atCall.items), 0)}

(***************************************************************************)
(* C1: for ratings of shape m x r and items of shape r x k, the            *)
(* reconstruction of every iteration and the returned matrix are m x r,    *)
(* and one iteration on the 2 x 5 example reports an error without         *)
(* aborting.                                                               *)
(***************************************************************************)
C1_ReconstructionShape ==
    ItemsFit =>
      /\ "guess" \in bound => Shape(guess) = Shape(ratings)
      /\ pc = "done" => Shape(result) = Shape(ratings)
      /\ ratings = ratings_arr /\ reps = 1 => pc # "raised"

(***************************************************************************)
(* C2: in every iteration the solve runs once per user row (rows 0..m-1)   *)
(* in the user sweep and once per item (columns 0..r-1) in the item sweep, *)
(* so new_items has one row per item.                                      *)
(***************************************************************************)
C2_OneSolvePerRowAndItem ==
    ItemsFit /\ pc = "err" =>
      /\ RowsSolved(rep, "user", Len(solves)) = 0..(Rows(ratings) - 1)
      /\ RowsSolved(rep, "item", Len(solves)) = 0..(Cols(ratings) - 1)
      /\ Rows(new_items) = Cols(ratings)

(***************************************************************************)
(* C3: no item solve starts before every user solve of the same iteration  *)
(* is done, and every item solve of iteration t uses the complete user     *)
(* factors produced by the user sweep of iteration t.                      *)
(***************************************************************************)
C3_ItemSweepUsesNewUsers ==
    /\ pc = "item" => Rows(new_users) = Rows(ratings)
    /\ \A n \in 1..Len(solves) :
         solves[n].side = "item" =>
           /\ RowsSolved(solves[n].rep, "user", n - 1)
                = 0..(Rows(ratings) - 1)
           /\ Finished(solves[n].rep, "user") = {solves[n].design}
           /\ Rows(solves[n].design) = Rows(ratings)
    /\ pc = "item" =>
         \A x \in 1..Len(solves) :
           solves[x].rep = rep /\ solves[x].side = "user" =>
             new_users[solves[x].row + 1]
               = UserRow(solves[x].design, ratings, solves[x].row + 1)

C3_Witness ==
    /\ pc = "item"
    /\ rep = 2
    /\ i = 2
    /\ new_users # atCall.users
    /\ Finished(1, "user") # Finished(2, "user")

(***************************************************************************)
(* C4: the reported error is the sum of (R[i,j] - guess[i,j])^2 over       *)
(* exactly the rated positions; unrated positions contribute 0, whatever   *)
(* the reconstruction holds there; the error is never negative.            *)
(***************************************************************************)
C4_MaskedError ==
    pc \in {"print", "handoff"} =>
      /\ Reported = SumSq(ratings, guess, Rated(ratings))
      /\ Reported = ErrLoop(ratings, Disturbed(ratings, guess), 1, 1,
                            RZero).val
      /\ Reported[1] >= 0
      /\ Reported[2] > 0

C4_Witness ==
    /\ pc = "print"
    /\ err # RZero
    /\ \E p \in (1..Rows(ratings)) \X (1..Cols(ratings)) :
         /\ ratings[p[1]][p[2]] = 0
         /\ p[2] <= Cols(guess)
         /\ guess[p[1]][p[2]] # RZero

(***************************************************************************)
(* C5: for square ratings, fitting items and reps >= 1, als runs exactly   *)
(* reps iterations whatever the errors are, prints exactly reps errors,    *)
(* and returns the product of the factors of the last iteration, the       *)
(* reconstruction whose error was printed last.                            *)
(***************************************************************************)
C5_ExactlyRepsIterations ==
    Square /\ ItemsFit /\ reps >= 1 =>
      /\ pc # "raised"
      /\ rep <= reps
      /\ Len(printed) <= rep
      /\ pc \in {"done", "return"} => rep = reps /\ Len(printed) = reps
      /\ pc = "done" =>
           /\ Finished(reps, "user") = {new_users}
           /\ Finished(reps, "item") = {new_items}
           /\ result = MatMulT(new_users, new_items)
           /\ result = guess
           /\ printed[reps] = SumSq(ratings, result, Rated(ratings))
      /\ i <= Rows(ratings)

C5_Witness ==
    /\ pc = "done"
    /\ Square
    /\ reps = 2
    /\ printed[1] = RZero

(***************************************************************************)
(* C6: items whose row count differs from the item count of the ratings    *)
(* make als abort: with reps >= 1 a ValueError at the first user solve,    *)
(* before anything is printed; it never returns a matrix.  (The users      *)
(* array is not covered: its shape is never looked at.)                    *)
(***************************************************************************)
C6_ItemsMismatchAborts ==
    ~ItemsFit =>
      /\ pc # "done"
      /\ printed = <<>>
      /\ solves = <<>>
      /\ pc = "raised" =>
           IF reps = 0
           THEN exc.type = "UnboundLocalError"
           ELSE exc = [type |-> "ValueError", at |-> "user", rep |-> 1,
                       i |-> 0]

C6_Witness ==
    /\ ~ItemsFit
    /\ pc = "raised"
    /\ exc.type = "ValueError"

\* C6 as stated: a misshapen users or items array never yields a result
C6_AnyMismatchAborts ==
    ~UsersFit \/ ~ItemsFit => pc # "done"

(***************************************************************************)
(* C7: the ratings array, and the caller's users and items arrays, hold    *)
(* their call-time values in every state of a run; als only rebinds its    *)
(* local names.                                                            *)
(***************************************************************************)
C7_ArgumentsNotMutated ==
    /\ ratings = atCall.ratings
    /\ users = atCall.users
    /\ items_arr = atCall.items
    /\ "ratings_cols" \in bound => Transpose(ratings_cols) = atCall.ratings

C7_Witness ==
    /\ pc = "done"
    /\ rep = 2
    /\ items # items_arr
    /\ items = new_items

(***************************************************************************)
(* C8: every user solve of iteration 1 uses the caller's items, every user *)
(* solve of iteration t > 1 the item factors produced by iteration t - 1;  *)
(* the binding does not change during an iteration, and changes only once  *)
(* the error of the iteration is printed.                                  *)
(***************************************************************************)
DesignOf(t) == IF t = 1 THEN {atCall.items} ELSE Finished(t - 1, "item")

C8_ItemsHandedOffBetweenIterations ==
    /\ \A n \in 1..Len(solves) :
         solves[n].side = "user" => DesignOf(solves[n].rep) = {solves[n].design}
    /\ InIteration =>
         /\ DesignOf(rep) = {items}
         /\ Len(printed) = IF pc = "handoff" THEN rep ELSE rep - 1
    /\ pc \in {"for", "return", "done"} /\ rep >= 1 =>
         /\ Finished(rep, "item") = {items}
         /\ Len(printed) = rep

C8_Witness ==
    /\ Len(solves) > 0
    /\ LET s == solves[Len(solves)]
       IN  /\ s.side = "user"
           /\ s.rep = 2
           /\ s.row = 1
           /\ s.design # atCall.items

(***************************************************************************)
(* C9: the users argument is never read: a run with any other users array  *)
(* and the same ratings, items and reps ends the same way, prints the same *)
(* errors and returns the same matrix.                                     *)
(***************************************************************************)
C9_UsersNeverRead ==
    pc \in {"done", "raised"} =>
      \A u \in OtherUsers : als(atCall.ratings, u, atCall.items, reps) = Observed

C9_Witness ==
    /\ pc = "done"
    /\ reps = 2
    /\ ~UsersFit
    /\ printed[2] # RZero
    /\ \E u \in OtherUsers : u # users /\ Shape(u) # Shape(users)

(***************************************************************************)
(* C10: with reps = 0 the loop body never runs, nothing is printed, and    *)
(* the call ends with an error at the return statement instead of          *)
(* returning a matrix.                                                     *)
(***************************************************************************)
C10_ZeroRepsRaises ==
    reps = 0 =>
      /\ pc \in {"call", "for", "return", "raised"}
      /\ rep = 0
      /\ printed = <<>>
      /\ solves = <<>>
      /\ result = <<>>
      /\ pc = "raised" =>
           exc = [type |-> "UnboundLocalError", at |-> "return", rep |-> 0,
                  i |-> 0]

C10_Witness ==
    /\ reps = 0
    /\ pc = "raised"
    /\ ItemsFit
    /\ UsersFit

====
